---- MODULE Spec2Model ----
(***************************************************************************)
(* Model of src/main.rs: a concurrent page fetcher.  main() turns the     *)
(* command-line URLs into Tasks, pushes one exec() future per task into a  *)
(* FuturesUnordered and drains it, pushing one exec(false, false) future   *)
(* per follow-up task a completed future returns.  All futures are polled  *)
(* from main's own task, so a step of the model is the code between two    *)
(* await points of one future, followed (when that future completes) by    *)
(* the body of main's while loop.                                          *)
(***************************************************************************)
EXTENDS Integers, Sequences, FiniteSets, TLC

\* ---------------------------------------------------------------- bounds
MaxSeeds == 2
MaxBody == 2
MaxTags == 1
MaxDoc == 2
MaxPath == 3

\* ------------------------------------------------------------------ URLs
\* A parsed reqwest::Url: scheme, host ("" when host_str() is None), path
\* as a sequence of characters, query.
NoHost == ""

MkUrl(s, h, p, q) == [scheme |-> s, host |-> h, path |-> p, query |-> q]

\* Result of a failed Url parse.
Malformed == MkUrl("!", NoHost, <<>>, "")

\* Url::domain(): None when the host is absent or an IP address.
IpHosts == {"10.0.0.1"}
HasDomain(url) == url.host # NoHost /\ url.host \notin IpHosts

\* Path::file_name() is None for a path without a final normal component:
\* trailing separators are ignored, so only "" and runs of "/" have none
\* (Url::path() has its dot segments already removed).
RECURSIVE StripSlashes(_)
StripSlashes(p) ==
    IF p = <<>> THEN <<>>
    ELSE IF p[Len(p)] = "/" THEN StripSlashes(SubSeq(p, 1, Len(p) - 1))
    ELSE p

HasFileName(p) == StripSlashes(p) # <<>>

\* str::replace("/", "_")
ReplaceSlashes(p) == [i \in 1..Len(p) |-> IF p[i] = "/" THEN "_" ELSE p[i]]

\* The panic of Option::unwrap(), as a file name no URL derives.
Panicked == <<"!panic">>

filename_for_url(url) ==
    IF url.host = NoHost THEN Panicked
    ELSE IF ~HasFileName(url.path) THEN <<url.host, ".html">>
    ELSE <<url.host>> \o ReplaceSlashes(url.path)

\* ------------------------------------------------- references and markup
\* The value of a src attribute, as the reference the URL parser reads in
\* it: "none" (no src attribute, or one without a value), "abs" (absolute
\* http URL), "pathabs" (/x), "rel" (x), "opaque" (data:x) or "bad" (a
\* string the parser rejects, such as http://[ ).
MkRef(k, h, p, q) == [kind |-> k, host |-> h, path |-> p, query |-> q]
NoSrc == MkRef("none", NoHost, <<>>, "")

\* The directory part of a base path: up to and including the last "/".
RECURSIVE DirOf(_)
DirOf(p) ==
    IF p = <<>> THEN <<>>
    ELSE IF p[Len(p)] = "/" THEN p
    ELSE DirOf(SubSeq(p, 1, Len(p) - 1))

\* Url::options().base_url(Some(base)).parse(src)
Resolve(base, ref) ==
    CASE ref.kind = "abs"     -> MkUrl("http", ref.host, ref.path, ref.query)
      [] ref.kind = "pathabs" -> MkUrl(base.scheme, base.host, ref.path, ref.query)
      [] ref.kind = "rel"     -> MkUrl(base.scheme, base.host,
                                       DirOf(base.path) \o ref.path, ref.query)
      [] ref.kind = "opaque"  -> MkUrl("data", NoHost, ref.path, "")
      [] OTHER                -> Malformed

\* A node of the parsed document; "#text" stands for a byte of the body
\* that is not part of a tag.
\* canon tells whether the node's markup is already spelled the way the
\* serialiser spells it (src="x" and not src='x'); alt is the value of
\* another attribute of the tag ("" when it has none).
MkNode(t, s, c) == [tag |-> t, src |-> s, canon |-> c, alt |-> ""]
Text == MkNode("#text", NoSrc, TRUE)
\* A byte that is no well-formed text, and the U+FFFD that replaces it.
BadByte == MkNode("#bad", NoSrc, TRUE)
Replacement == MkNode("#fffd", NoSrc, TRUE)
IsTag(n) == n.tag \notin {"#text", "#bad", "#fffd"}

\* The string a local file name is, read back as a src value.
LocalRef(name) == MkRef("rel", NoHost, name, "")

\* ---------------------------------------------------------------- filters
\* A response: status code, content-type header (present or not, and its
\* value as a sequence of tokens), body.
MkResp(st, ct, b) == [status |-> st, ct |-> ct, body |-> b]
NoCT == [present |-> FALSE, value |-> <<>>]
CT(v) == [present |-> TRUE, value |-> v]
TextHtml == <<"text/", "html">>

\* <[u8]>::starts_with
StartsWith(s, p) == Len(s) >= Len(p) /\ SubSeq(s, 1, Len(p)) = p

\* A status check that only rejects server errors.
IsSuccess_lenient(st) == st >= 200 /\ st < 500

\* StatusCode::is_success()
IsSuccess(st) == st >= 200 /\ st < 300

\* Outcome of a filter: kind is "ok" or "panic" (an unwrap() on None/Err).
MkOut(k, b, as, m) == [kind |-> k, body |-> b, assets |-> as, meta |-> m]
\* kind is "ok" or names the unwrap() that panicked: "panic_parse" (line
\* 92), "panic_host" (lines 19, 23), "panic_domain" (line 71).
PanicOut(why) == MkOut(why, <<>>, <<>>, <<>>)

\* resp.text(): malformed sequences become U+FFFD.
Decode(b) ==
    [i \in 1..Len(b) |-> IF b[i] = BadByte THEN Replacement ELSE b[i]]

filter_noop(resp) == resp.body

\* A rewrite_image that puts the newest asset first.
rewrite_image_prepend(base, n, assets) ==
    IF n.src.kind = "none" THEN [kind |-> "ok", node |-> n, assets |-> assets]
    ELSE LET url == Resolve(base, n.src)
         IN  IF url = Malformed
             THEN [kind |-> "panic_parse", node |-> n, assets |-> assets]
             ELSE IF filename_for_url(url) = Panicked
             THEN [kind |-> "panic_host", node |-> n, assets |-> assets]
             ELSE [kind |-> "ok",
                   node |-> [n EXCEPT !.src = LocalRef(filename_for_url(url))],
                   assets |-> <<url>> \o assets]

\* rewrite_image on node n with accumulator assets.
rewrite_image(base, n, assets) ==
    IF n.src.kind = "none" THEN [kind |-> "ok", node |-> n, assets |-> assets]
    ELSE LET url == Resolve(base, n.src)
         IN  IF url = Malformed
             THEN [kind |-> "panic_parse", node |-> n, assets |-> assets]
             ELSE IF filename_for_url(url) = Panicked
             THEN [kind |-> "panic_host", node |-> n, assets |-> assets]
             ELSE [kind |-> "ok",
                   node |-> [n EXCEPT !.src = LocalRef(filename_for_url(url))],
                   assets |-> Append(assets, url)]

\* A loop that hands every tag to rewrite_image, whatever its name.
RECURSIVE Walk_anyTag(_, _, _, _, _)
Walk_anyTag(base, rewrite, doc, i, assets) ==
    IF i > Len(doc) THEN [kind |-> "ok", doc |-> doc, assets |-> assets]
    ELSE IF IsTag(doc[i]) /\ rewrite
    THEN LET r == rewrite_image(base, doc[i], assets)
         IN  IF r.kind # "ok"
             THEN [kind |-> r.kind, doc |-> doc, assets |-> assets]
             ELSE Walk_anyTag(base, rewrite, [doc EXCEPT ![i] = r.node], i + 1, r.assets)
    ELSE Walk_anyTag(base, rewrite, doc, i + 1, assets)

\* The loop over dom.nodes_mut(): nodes i..Len(doc) still to visit.
RECURSIVE Walk(_, _, _, _, _)
Walk(base, rewrite, doc, i, assets) ==
    IF i > Len(doc) THEN [kind |-> "ok", doc |-> doc, assets |-> assets]
    ELSE IF IsTag(doc[i]) /\ rewrite /\ doc[i].tag = "img"
    THEN LET r == rewrite_image(base, doc[i], assets)
         IN  IF r.kind # "ok"
             THEN [kind |-> r.kind, doc |-> doc, assets |-> assets]
             ELSE Walk(base, rewrite, [doc EXCEPT ![i] = r.node], i + 1, r.assets)
    ELSE Walk(base, rewrite, doc, i + 1, assets)

\* A count that does not look at the tag name.
Count_anyTag(doc, tag) == Cardinality({i \in 1..Len(doc) : IsTag(doc[i])})

\* counts.get(tag).unwrap_or(&0)
Count(doc, tag) == Cardinality({i \in 1..Len(doc) : doc[i].tag = tag})

\* dom.inner_html(): every tag is written back in the serialiser's spelling.
InnerHtml(doc) ==
    [i \in 1..Len(doc) |->
        IF IsTag(doc[i]) THEN [doc[i] EXCEPT !.canon = TRUE] ELSE doc[i]]

\* A header check that forgets to look at the value.
SkipsDocument_presentOnly(resp) == ~resp.ct.present

SkipsDocument(resp) ==
    ~resp.ct.present \/ ~StartsWith(resp.ct.value, TextHtml)

\* A filter_html that always returns the serialised tree.
filter_html_reserialise(url, resp, rewrite) ==
    IF SkipsDocument(resp) THEN MkOut("ok", resp.body, <<>>, <<>>)
    ELSE LET body == Decode(resp.body)
             w == Walk(url, rewrite, body, 1, <<>>)
         IN  IF w.kind # "ok" THEN PanicOut(w.kind)
             ELSE IF ~HasDomain(url) THEN PanicOut("panic_domain")
             ELSE MkOut("ok", InnerHtml(w.doc), w.assets,
                        <<[site |-> url.host,
                           links |-> Count(body, "a"),
                           images |-> Count(body, "img")]>>)

filter_html(url, resp, rewrite) ==
    IF SkipsDocument(resp) THEN MkOut("ok", resp.body, <<>>, <<>>)
    ELSE LET body == Decode(resp.body)
             w == Walk(url, rewrite, body, 1, <<>>)
         IN  IF w.kind # "ok" THEN PanicOut(w.kind)
             ELSE IF ~HasDomain(url) THEN PanicOut("panic_domain")
             ELSE MkOut("ok",
                        IF rewrite THEN InnerHtml(w.doc) ELSE body,
                        w.assets,
                        <<[site |-> url.host,
                           links |-> Count(body, "a"),
                           images |-> Count(body, "img")]>>)

\* Lines 111-115 of exec: the filter the switches select.
Filter(url, resp, meta, rewrite) ==
    IF meta THEN filter_html(url, resp, rewrite)
    ELSE MkOut("ok", filter_noop(resp), <<>>, <<>>)

\* ----------------------------------------------------------------- inputs
\* What Url::parse makes of a command-line argument.
Home == MkUrl("http", "site.test", <<"/">>, "")
IpPage == MkUrl("http", "10.0.0.1", <<"/", "a">>, "")
Mail == MkUrl("mailto", NoHost, <<"a">>, "")
SeedArgs == {Home, IpPage, Mail, Malformed}

ImgA == MkNode("img", MkRef("pathabs", NoHost, <<"/", "a">>, ""), TRUE)
ImgBad == MkNode("img", MkRef("bad", NoHost, <<>>, ""), TRUE)
Link == MkNode("a", NoSrc, TRUE)
Items == {Text, ImgA, ImgBad, Link}

SeqsUpTo(S, n) == UNION {[1..k -> S] : k \in 0..n}

Statuses == {200, 404}
ContentTypes == {NoCT, CT(TextHtml), CT(<<"text/", "plain">>)}
\* Bodies of at most MaxBody bytes holding at most MaxTags tags.
Bodies ==
    {b \in SeqsUpTo(Items, MaxBody) :
        Cardinality({i \in 1..Len(b) : IsTag(b[i])}) <= MaxTags}
Responses ==
    {MkResp(st, ct, b) : st \in Statuses, ct \in ContentTypes, b \in Bodies}

\* ------------------------------------------------------------------ state
VARIABLES
    args,            \* the urls of the command line, parsed
    show_metadata,   \* -m
    rewrite_assets,  \* -r
    sched,           \* main: "init", "running", "exited" (no urls),
                     \*       "done" (loop ended), "panicked"
    tasks,           \* every Task ever pushed into futures, in push order
    fs,              \* the working directory: file name -> content
    fin,             \* arguments of a single call of a pure function
    fout             \* what that call returned

vars == <<args, show_metadata, rewrite_assets, sched, tasks, fs, fin, fout>>

\* No single call is under way.
NoCall == [op |-> "none", url |-> Malformed, resp |-> MkResp(0, NoCT, <<>>),
           meta |-> FALSE, rewrite |-> FALSE]
NoResult == [done |-> FALSE, out |-> MkOut("ok", <<>>, <<>>, <<>>), name |-> <<>>]

\* Task::new plus the arguments of its exec() future and the future's
\* position: "queued" (pushed, not yet polled), "fetching" (GET issued),
\* "filtered" (filter returned, File::create pending), "created"
\* (write_all pending), "done" (Ok), "failed" (Err), "panicked".
NewTask(url, depth, parent, meta, rewrite) ==
    [url |-> url, out_name |-> filename_for_url(url),
     depth |-> depth, parent |-> parent, meta |-> meta, rewrite |-> rewrite,
     pc |-> "queued", err |-> "", status |-> 0, ct |-> NoCT,
     filtered |-> FALSE, body |-> <<>>, assets |-> <<>>, summary |-> <<>>,
     created |-> FALSE, clean |-> FALSE, follow |-> 0]

InFlightPcs == {"queued", "fetching", "filtered", "created"}
InFlight(ts) == {t \in DOMAIN ts : ts[t].pc \in InFlightPcs}

Exists(f, name) == name \in DOMAIN f

\* File::create: the file exists and is empty.
CreateFile(f, name) == (name :> <<>>) @@ f

\* A single write() of the first byte in place of write_all.
WriteAt0_first(old, b) ==
    IF b = <<>> THEN old ELSE <<b[1]>> \o SubSeq(old, 2, Len(old))

\* write_all of bytes b through a descriptor of its own, whose offset is 0
\* after File::create: the bytes replace the first Len(b) bytes of the
\* file and what lies behind them stays.
WriteAt0(old, b) == b \o SubSeq(old, Len(b) + 1, Len(old))

\* futures.next() returns None once nothing is left in the set.
Drained(ts) == IF InFlight(ts) = {} THEN "done" ELSE "running"

\* Follow-up futures built with the switches of the command line.
ChildSwitches_inherit == [meta |-> show_metadata, rewrite |-> rewrite_assets]

\* Line 179: the switches of a follow-up task's future.
ChildSwitches == [meta |-> FALSE, rewrite |-> FALSE]

\* Lines 118 and 177-181: one queued future per follow-up task.
Push(ts, parent, urls) ==
    ts \o [i \in 1..Len(urls) |->
              NewTask(urls[i], ts[parent].depth + 1, parent,
                      ChildSwitches.meta, ChildSwitches.rewrite)]

Init ==
    /\ args \in SeqsUpTo(SeedArgs, MaxSeeds)
    /\ show_metadata \in BOOLEAN
    /\ rewrite_assets \in BOOLEAN
    /\ sched = "init"
    /\ tasks = <<>>
    /\ fs = <<>>
    /\ fin = NoCall
    /\ fout = NoResult

\* A setup that drops the arguments it cannot use and schedules the rest.
ParseSeeds_skip ==
    /\ sched = "init"
    /\ LET ok == SelectSeq(args, LAMBDA u : u # Malformed /\ u.host # NoHost)
       IN  IF ok = <<>> THEN sched' = "exited" /\ tasks' = tasks
           ELSE /\ sched' = "running"
                /\ tasks' = [i \in 1..Len(ok) |->
                                NewTask(ok[i], 0, 0, show_metadata, rewrite_assets)]
    /\ UNCHANGED <<fin, fout, args, show_metadata, rewrite_assets, fs>>

\* Lines 162-174: parse the urls, build the tasks, push their futures.
ParseSeeds ==
    /\ sched = "init"
    /\ IF args = <<>> THEN sched' = "exited" /\ tasks' = tasks
       ELSE IF \E i \in 1..Len(args) :
                  args[i] = Malformed \/ filename_for_url(args[i]) = Panicked
       THEN sched' = "panicked" /\ tasks' = tasks
       ELSE /\ sched' = "running"
            /\ tasks' = [i \in 1..Len(args) |->
                            NewTask(args[i], 0, 0, show_metadata, rewrite_assets)]
    /\ UNCHANGED <<fin, fout, args, show_metadata, rewrite_assets, fs>>

Fail(t, kind) ==
    /\ tasks' = [tasks EXCEPT ![t].pc = "failed", ![t].err = kind]
    /\ sched' = Drained(tasks')

\* Lines 102-103: the first poll of the future issues the GET.
Start(t) ==
    /\ sched = "running"
    /\ tasks[t].pc = "queued"
    /\ tasks' = [tasks EXCEPT ![t].pc = "fetching"]
    /\ UNCHANGED <<fin, fout, args, show_metadata, rewrite_assets, sched, fs>>

\* Line 103: reqwest::get fails.
NetworkFail(t) ==
    /\ sched = "running"
    /\ tasks[t].pc = "fetching"
    /\ Fail(t, "network")
    /\ UNCHANGED <<fin, fout, args, show_metadata, rewrite_assets, fs>>

\* Lines 45-48: the content-type header as filter_html reads it; the
\* pass-through filter never looks at it.
HeaderRead(task, resp) == IF task.meta THEN resp.ct ELSE NoCT

\* Lines 36, 51, 53, 54: the response is a success but its body cannot be
\* read, decoded or parsed inside the filter.
BodyFail(t) ==
    /\ sched = "running"
    /\ tasks[t].pc = "fetching"
    /\ \E resp \in Responses :
          /\ IsSuccess(resp.status)
          /\ tasks' = [tasks EXCEPT ![t].pc = "failed", ![t].err = "body",
                                    ![t].status = resp.status,
                                    ![t].ct = HeaderRead(tasks[t], resp),
                                    ![t].filtered = TRUE]
    /\ sched' = Drained(tasks')
    /\ UNCHANGED <<fin, fout, args, show_metadata, rewrite_assets, fs>>

\* An exec that hands each asset to the scheduler as soon as the response
\* is in, while the page's own filter is still to run.
Respond_eager(t) ==
    /\ sched = "running"
    /\ tasks[t].pc = "fetching"
    /\ tasks[t].assets = <<>>
    /\ \E resp \in Responses :
          LET out == Filter(tasks[t].url, resp, tasks[t].meta, tasks[t].rewrite)
          IN  /\ IsSuccess(resp.status)
              /\ out.kind = "ok"
              /\ out.assets # <<>>
              /\ tasks' = Push([tasks EXCEPT ![t].assets = out.assets], t, out.assets)
    /\ UNCHANGED <<fin, fout, args, show_metadata, rewrite_assets, sched, fs>>

\* Lines 103-116: a response arrives; status check, then the filter.
Respond(t) ==
    /\ sched = "running"
    /\ tasks[t].pc = "fetching"
    /\ \E resp \in Responses :
          IF ~IsSuccess(resp.status)
          THEN /\ tasks' = [tasks EXCEPT ![t].pc = "failed", ![t].err = "status",
                                         ![t].status = resp.status]
               /\ sched' = Drained(tasks')
          ELSE LET out == Filter(tasks[t].url, resp, tasks[t].meta, tasks[t].rewrite)
               IN  IF out.kind # "ok"
                   THEN /\ tasks' = [tasks EXCEPT ![t].pc = "panicked",
                                                  ![t].err = out.kind,
                                                  ![t].status = resp.status,
                                                  ![t].ct = HeaderRead(tasks[t], resp),
                                                  ![t].filtered = TRUE]
                        /\ sched' = "panicked"
                   ELSE /\ tasks' = [tasks EXCEPT ![t].pc = "filtered",
                                                  ![t].status = resp.status,
                                                  ![t].ct = HeaderRead(tasks[t], resp),
                                                  ![t].filtered = TRUE,
                                                  ![t].body = out.body,
                                                  ![t].assets = out.assets,
                                                  ![t].summary = out.meta]
                        /\ sched' = sched
    /\ UNCHANGED <<fin, fout, args, show_metadata, rewrite_assets, fs>>

\* Every other task that holds the file of task t open or written loses
\* the guarantee that the file is as it left it.
Disturb(ts, t) ==
    [u \in DOMAIN ts |->
        IF u # t /\ ts[u].out_name = ts[t].out_name
        THEN [ts[u] EXCEPT !.clean = FALSE] ELSE ts[u]]

\* Line 116: File::create succeeds.
Create(t) ==
    /\ sched = "running"
    /\ tasks[t].pc = "filtered"
    /\ fs' = CreateFile(fs, tasks[t].out_name)
    /\ tasks' = Disturb([tasks EXCEPT ![t].pc = "created", ![t].created = TRUE,
                                      ![t].clean = TRUE], t)
    /\ UNCHANGED <<fin, fout, args, show_metadata, rewrite_assets, sched>>

\* Line 116: File::create fails.
CreateFail(t) ==
    /\ sched = "running"
    /\ tasks[t].pc = "filtered"
    /\ Fail(t, "create")
    /\ UNCHANGED <<fin, fout, args, show_metadata, rewrite_assets, fs>>

\* Lines 117-118 and 177-181: write_all succeeds, exec returns the
\* follow-up tasks and main pushes a future for each.
Write(t) ==
    /\ sched = "running"
    /\ tasks[t].pc = "created"
    /\ fs' = [fs EXCEPT ![tasks[t].out_name] = WriteAt0(@, tasks[t].body)]
    /\ tasks' = Push(Disturb([tasks EXCEPT ![t].pc = "done",
                                           ![t].follow = Len(tasks[t].assets)], t),
                     t, tasks[t].assets)
    /\ sched' = Drained(tasks')
    /\ UNCHANGED <<fin, fout, args, show_metadata, rewrite_assets>>

\* A failed write_all whose error is dropped: the task still returns its
\* follow-up tasks.
WriteFail_ignored(t) ==
    /\ sched = "running"
    /\ tasks[t].pc = "created"
    /\ \E k \in 0..(Len(tasks[t].body) - 1) :
          /\ fs' = [fs EXCEPT ![tasks[t].out_name] =
                                 WriteAt0(@, SubSeq(tasks[t].body, 1, k))]
          /\ tasks' = Push(Disturb([tasks EXCEPT ![t].pc = "done",
                                                 ![t].follow = Len(tasks[t].assets)], t),
                           t, tasks[t].assets)
    /\ sched' = Drained(tasks')
    /\ UNCHANGED <<fin, fout, args, show_metadata, rewrite_assets>>

\* Line 117: write_all fails after writing k bytes of the body.
WriteFail(t) ==
    /\ sched = "running"
    /\ tasks[t].pc = "created"
    /\ \E k \in 0..(Len(tasks[t].body) - 1) :
          /\ fs' = [fs EXCEPT ![tasks[t].out_name] =
                                 WriteAt0(@, SubSeq(tasks[t].body, 1, k))]
          /\ tasks' = Disturb([tasks EXCEPT ![t].pc = "failed",
                                            ![t].err = "write"], t)
    /\ sched' = Drained(tasks')
    /\ UNCHANGED <<fin, fout, args, show_metadata, rewrite_assets>>

Next ==
    \/ ParseSeeds
    \/ \E t \in DOMAIN tasks : Start(t)
    \/ \E t \in DOMAIN tasks : NetworkFail(t)
    \/ \E t \in DOMAIN tasks : BodyFail(t)
    \/ \E t \in DOMAIN tasks : Respond(t)
    \/ \E t \in DOMAIN tasks : Create(t)
    \/ \E t \in DOMAIN tasks : CreateFail(t)
    \/ \E t \in DOMAIN tasks : Write(t)
    \/ \E t \in DOMAIN tasks : WriteFail(t)

Spec == Init /\ [][Next]_vars

\* ------------------------------------------------- single calls
\* The filters and the deriver called once on an input of their own, to
\* compare what they return with what they were given.
Deep == MkUrl("http", "site.test", <<"/", "d", "/", "p">>, "")
Pages == {Home, Deep, IpPage}

ImgRel == MkNode("img", MkRef("rel", NoHost, <<"b">>, ""), TRUE)
ImgAbs == [MkNode("img", MkRef("abs", "cdn.test", <<"/", "c">>, "v=2"), FALSE)
              EXCEPT !.alt = "x"]
ImgData == MkNode("img", MkRef("opaque", NoHost, <<"x">>, ""), TRUE)
ImgNoSrc == [MkNode("img", NoSrc, FALSE) EXCEPT !.alt = "x"]
ImgUpper == MkNode("IMG", MkRef("pathabs", NoHost, <<"/", "a">>, ""), TRUE)
Script == [MkNode("script", MkRef("pathabs", NoHost, <<"/", "a">>, ""), FALSE)
              EXCEPT !.alt = "x"]
DocItems == {Text, BadByte, Link, ImgA, ImgBad, ImgRel, ImgAbs, ImgData,
             ImgNoSrc, ImgUpper, Script}
DocTypes == ContentTypes \cup {CT(<<"text/", "html", ";charset=utf-8">>)}

FilterCalls ==
    {[op |-> "filter", url |-> u, resp |-> MkResp(200, ct, b),
      meta |-> m, rewrite |-> r] :
        u \in Pages, ct \in DocTypes, b \in SeqsUpTo(DocItems, MaxDoc),
        m \in BOOLEAN, r \in BOOLEAN}

\* Url::path() of a URL with a host is empty or starts with "/".
PathChars == {"/", "a", "_"}
Paths == {p \in SeqsUpTo(PathChars, MaxPath) : p = <<>> \/ p[1] = "/"}
DeriverCalls ==
    {[op |-> "derive",
      url |-> MkUrl(IF p = <<>> THEN "foo" ELSE "http", h, p, q),
      resp |-> NoCall.resp, meta |-> FALSE, rewrite |-> FALSE] :
        h \in {"site.test", "10.0.0.1", NoHost}, p \in Paths, q \in {"", "v=2"}}

InitCalls ==
    /\ fin \in FilterCalls \cup DeriverCalls
    /\ fout = NoResult
    /\ args = <<>>
    /\ show_metadata = FALSE
    /\ rewrite_assets = FALSE
    /\ sched = "init"
    /\ tasks = <<>>
    /\ fs = <<>>

\* Lines 111-115: one call of the filter exec selects.
CallFilter ==
    /\ fin.op = "filter"
    /\ ~fout.done
    /\ fout' = [done |-> TRUE,
                out |-> Filter(fin.url, fin.resp, fin.meta, fin.rewrite),
                name |-> <<>>]
    /\ UNCHANGED <<fin, args, show_metadata, rewrite_assets, sched, tasks, fs>>

\* Line 31: one call of filename_for_url.
CallDeriver ==
    /\ fin.op = "derive"
    /\ ~fout.done
    /\ fout' = [done |-> TRUE, out |-> NoResult.out,
                name |-> filename_for_url(fin.url)]
    /\ UNCHANGED <<fin, args, show_metadata, rewrite_assets, sched, tasks, fs>>

NextCalls ==
    \/ CallFilter
    \/ CallDeriver

SpecCalls == InitCalls /\ [][NextCalls]_vars

TypeOK ==
    /\ sched \in {"init", "running", "exited", "done", "panicked"}
    /\ \A t \in DOMAIN tasks :
          tasks[t].pc \in InFlightPcs \cup {"done", "failed", "panicked"}

\* ----------------------------------------------------------------- claims
Children(t) == {u \in DOMAIN tasks : tasks[u].parent = t}
Finished == {"done", "failed"}
HasImg(b) == \E i \in 1..Len(b) : b[i].tag = "img"
SamePath(t, u) == t # u /\ tasks[t].out_name = tasks[u].out_name

\* C1: every task is a seed task (depth 0) or an asset task of a seed task
\* (depth 1); an asset task runs with both switches off and yields no
\* follow-up, so no task of depth 2 or more exists.
C1_DepthAtMostOne ==
    \A t \in DOMAIN tasks :
        /\ tasks[t].depth \in {0, 1}
        /\ tasks[t].depth = 0 => tasks[t].parent = 0
        /\ tasks[t].depth = 1 =>
              /\ tasks[t].parent \in DOMAIN tasks
              /\ tasks[tasks[t].parent].depth = 0
              /\ ~tasks[t].meta /\ ~tasks[t].rewrite
              /\ tasks[t].assets = <<>> /\ tasks[t].follow = 0
              /\ tasks[t].summary = <<>>
              /\ Children(t) = {}

\* An asset task has completed on a body that holds an img element.
C1_Witness ==
    \E t \in DOMAIN tasks :
        tasks[t].depth = 1 /\ tasks[t].pc = "done" /\ HasImg(tasks[t].body)

\* C2: however a task fails, the scheduler keeps driving the other tasks:
\* it is never stopped by a failure while another task is in flight.
C2_FailureNeverAbortsSiblings ==
    \A t \in DOMAIN tasks :
        tasks[t].pc \in {"failed", "panicked"} =>
            \A u \in DOMAIN tasks \ {t} :
                tasks[u].pc \in InFlightPcs => sched = "running"

\* C3: the scheduler stops exactly when the in-flight set is empty: it has
\* never stopped with a task in flight and never runs with none in flight.
C3_StopsExactlyWhenEmpty ==
    /\ sched \in {"done", "exited", "panicked"} => InFlight(tasks) = {}
    /\ sched = "running" => InFlight(tasks) # {}

\* C4: every task is consumed exactly once.  The seeds are the arguments,
\* each pushed once; a successful task's follow-ups are pushed once each,
\* in order, and nothing else is pushed; and once main has stopped, every
\* task that was pushed has been executed to its end.
Rank(pc) ==
    CASE pc = "queued" -> 0 [] pc = "fetching" -> 1 [] pc = "filtered" -> 2
      [] pc = "created" -> 3 [] OTHER -> 4

C4_Pushed ==
    /\ sched \in {"running", "done"} =>
          /\ Len(tasks) >= Len(args)
          /\ \A i \in 1..Len(args) : tasks[i].url = args[i] /\ tasks[i].depth = 0
          /\ \A t \in DOMAIN tasks : t > Len(args) => tasks[t].parent # 0
    /\ \A t \in DOMAIN tasks :
          IF tasks[t].pc = "done"
          THEN /\ Cardinality(Children(t)) = Len(tasks[t].assets)
               /\ tasks[t].follow = Len(tasks[t].assets)
               /\ \E k \in 0..Len(tasks) :
                     \A i \in 1..Len(tasks[t].assets) :
                         /\ k + i \in Children(t)
                         /\ tasks[k + i].url = tasks[t].assets[i]
          ELSE Children(t) = {}

C4_ConsumedExactlyOnce ==
    /\ C4_Pushed
    /\ sched \notin {"init", "running"} =>
          \A t \in DOMAIN tasks : Rank(tasks[t].pc) = 4

\* C5: a task whose response status is not a success fails without running
\* the filter, without creating its file and without follow-ups, and the
\* step that fails it leaves every other task, the files and the scheduler
\* as they were.
C5_NonSuccess(t) == tasks[t].status # 0 /\ tasks[t].status \notin 200..299

C5_State ==
    \A t \in DOMAIN tasks :
        C5_NonSuccess(t) =>
            /\ tasks[t].pc = "failed" /\ tasks[t].err = "status"
            /\ ~tasks[t].filtered /\ ~tasks[t].created
            /\ tasks[t].body = <<>> /\ tasks[t].assets = <<>>
            /\ Children(t) = {}

C5_Step ==
    \A t \in DOMAIN tasks :
        (tasks[t].pc = "fetching" /\ tasks'[t].status \notin 200..299
                                  /\ tasks'[t].status # 0) =>
            /\ fs' = fs
            /\ Len(tasks') = Len(tasks)
            /\ \A u \in DOMAIN tasks \ {t} : tasks'[u] = tasks[u]
            /\ sched' = IF InFlight(tasks) = {t} THEN "done" ELSE "running"

C5_StatusFailure == []C5_State /\ [][C5_Step]_vars

\* A task has failed on its status and a sibling has completed.
C5_Witness ==
    \E t, u \in DOMAIN tasks :
        /\ t # u
        /\ C5_NonSuccess(t) /\ tasks[t].pc = "failed"
        /\ tasks[u].pc = "done" /\ sched = "done"

\* C6: a task that ended in failure has not created, truncated or written
\* the file at its output path.
C6_FailedTaskLeavesNoFile ==
    \A t \in DOMAIN tasks : tasks[t].pc = "failed" => ~tasks[t].created

\* C7: a task has discovered assets (and follow-ups) only if it ran with
\* show_metadata and rewrite_assets and the content-type header of its
\* response is present and begins with text/html.
C7_AssetsOnlyFromHtml ==
    \A t \in DOMAIN tasks :
        (tasks[t].assets # <<>> \/ tasks[t].follow > 0 \/ Children(t) # {}) =>
            /\ tasks[t].meta /\ tasks[t].rewrite
            /\ tasks[t].ct.present
            /\ Len(tasks[t].ct.value) >= 2
            /\ tasks[t].ct.value[1] = "text/" /\ tasks[t].ct.value[2] = "html"

\* A task has discovered an asset.
C7_Witness ==
    \E t \in DOMAIN tasks : tasks[t].assets # <<>> /\ tasks[t].pc = "done"

C9_CollidingFileIsOneOutput ==
    \A t, u \in DOMAIN tasks :
        (/\ sched = "done"
         /\ SamePath(t, u)
         /\ tasks[t].pc = "done" /\ tasks[u].pc = "done"
         /\ \A v \in DOMAIN tasks \ {t, u} : tasks[v].out_name # tasks[t].out_name) =>
            fs[tasks[t].out_name] \in {tasks[t].body, tasks[u].body}

\* C10: an asset task's fetch is issued only after its originating page
\* task has completed filtering (and discovered it).
C10_AssetStartsAfterPageFilter ==
    \A t \in DOMAIN tasks :
        (tasks[t].parent # 0 /\ tasks[t].pc # "queued") =>
            /\ tasks[tasks[t].parent].filtered
            /\ tasks[tasks[t].parent].pc \notin {"queued", "fetching"}
            /\ \E i \in 1..Len(tasks[tasks[t].parent].assets) :
                  tasks[tasks[t].parent].assets[i] = tasks[t].url

\* An asset task has completed while a page that is not its origin has not
\* been started yet.
C10_Witness ==
    \E t, s \in DOMAIN tasks :
        /\ tasks[t].parent # 0 /\ tasks[t].parent # s
        /\ tasks[t].pc = "done"
        /\ tasks[s].depth = 0 /\ tasks[s].pc = "queued"

\* C11: with a malformed url among the arguments the process stops before
\* anything is scheduled: no task exists (so no fetch is issued) and no
\* file is written, also for the well-formed urls before the malformed one;
\* with no url at all the process exits without a task.
C11_AbortBeforeScheduling ==
    /\ (\E i \in 1..Len(args) : args[i] = Malformed) =>
          tasks = <<>> /\ fs = <<>> /\ sched \in {"init", "panicked"}
    /\ args = <<>> => tasks = <<>> /\ fs = <<>> /\ sched \in {"init", "exited"}

\* main has panicked on a malformed second url after a well-formed first.
C11_Witness ==
    /\ sched = "panicked"
    /\ Len(args) = 2 /\ args[1] = Home /\ args[2] = Malformed

\* What the claims about a single filter call look at.
IsHtmlType(ct) ==
    ct.present /\ Len(ct.value) >= 2 /\ ct.value[1] = "text/" /\ ct.value[2] = "html"
FilterReturned == fout.done /\ fin.op = "filter" /\ fout.out.kind = "ok"
Rewrote == FilterReturned /\ fin.meta /\ fin.rewrite /\ IsHtmlType(fin.resp.ct)
ImgSrcAt(b, i) == b[i].tag = "img" /\ b[i].src.kind # "none"
ImgRank(b, i) == Cardinality({j \in 1..i : ImgSrcAt(b, j)})
Resolved(i) == Resolve(fin.url, fin.resp.body[i].src)
Occurrences(seq, x) == Cardinality({k \in 1..Len(seq) : seq[k] = x})

C12_PerImage ==
    /\ Len(fout.out.body) = Len(fin.resp.body)
    /\ Len(fout.out.assets) = ImgRank(fin.resp.body, Len(fin.resp.body))
    /\ \A i \in 1..Len(fin.resp.body) :
          ImgSrcAt(fin.resp.body, i) =>
              /\ fout.out.body[i].src = LocalRef(filename_for_url(Resolved(i)))
              /\ fout.out.assets[ImgRank(fin.resp.body, i)] = Resolved(i)

\* C12 as stated: after rewriting, the src of every img that has one is the
\* deriver's name of the resolved URL, the assets follow document order, and
\* each resolved URL appears exactly once among the assets.
C12_EachAssetExactlyOnce ==
    Rewrote =>
        /\ C12_PerImage
        /\ \A i \in 1..Len(fin.resp.body) :
              ImgSrcAt(fin.resp.body, i) =>
                  Occurrences(fout.out.assets, Resolved(i)) = 1

\* C12 amended: after rewriting, the src of every img that has one is the
\* deriver's name of the resolved URL, and the assets are the resolved URLs
\* of these img elements, one entry per element, in document order.
C12_OneAssetPerImageInOrder == Rewrote => C12_PerImage

\* A page with two img elements of different src has been rewritten.
C12_Witness ==
    /\ Rewrote
    /\ fin.url = Deep
    /\ Len(fin.resp.body) = 2
    /\ ImgSrcAt(fin.resp.body, 1) /\ ImgSrcAt(fin.resp.body, 2)
    /\ Resolved(1) # Resolved(2)
    /\ fin.resp.body[1].src.kind = "rel"

\* The body read as text: U+FFFD in the place of every malformed byte.
AsText(b) == [i \in 1..Len(b) |-> IF b[i].tag = "#bad" THEN Replacement ELSE b[i]]
Opaque == ~fin.meta \/ ~IsHtmlType(fin.resp.ct)

C14_UnresolvableSrcFailsOneTask ==
    \A t \in DOMAIN tasks :
        tasks[t].err = "panic_parse" =>
            /\ tasks[t].pc = "failed"
            /\ ~tasks[t].created
            /\ Children(t) = {}
            /\ sched # "panicked"

Derived == fout.done /\ fin.op = "derive" /\ fin.url.host # NoHost
EndsInSlash(p) == p # <<>> /\ p[Len(p)] = "/"

\* C15: for a URL with a host the derived name is "<host>.html" when the
\* path is empty, is "/" or ends in "/", and otherwise the host followed by
\* the path with every "/" replaced by "_"; scheme and query play no part.
C15_DerivedName ==
    Derived =>
        /\ (fin.url.path = <<>> \/ EndsInSlash(fin.url.path)) =>
              fout.name = <<fin.url.host, ".html">>
        /\ ~(fin.url.path = <<>> \/ EndsInSlash(fin.url.path)) =>
              /\ Len(fout.name) = 1 + Len(fin.url.path)
              /\ fout.name[1] = fin.url.host
              /\ \A i \in 1..Len(fin.url.path) :
                    fout.name[i + 1] =
                        IF fin.url.path[i] = "/" THEN "_" ELSE fin.url.path[i]
        /\ fout.name = filename_for_url(MkUrl("http", fin.url.host, fin.url.path, ""))

Elements(b, name) == {i \in 1..Len(b) : b[i].tag = name}

\* C16: a task emits at most one metadata summary, and only when it ran
\* with show_metadata on and its response was a success of content type
\* text/html; an asset task, a response that is not HTML and a response
\* that is not a success emit none. The summary's link and image counts are
\* the numbers of "a" and "img" elements of the document, whether or not
\* the images were rewritten.
C16_SummaryOnlyForHtmlPage ==
    \A t \in DOMAIN tasks :
        /\ Len(tasks[t].summary) <= 1
        /\ tasks[t].summary # <<>> =>
              /\ tasks[t].meta /\ show_metadata
              /\ tasks[t].depth = 0
              /\ tasks[t].status \in 200..299
              /\ IsHtmlType(tasks[t].ct)
              /\ tasks[t].summary[1].links = Cardinality(Elements(tasks[t].body, "a"))
              /\ tasks[t].summary[1].images = Cardinality(Elements(tasks[t].body, "img"))

\* A page with one image and no link has emitted its summary, and its
\* asset task has finished a successful fetch without emitting one.
C16_Witness ==
    \E t \in DOMAIN tasks : \E u \in Children(t) :
        /\ tasks[t].summary # <<>>
        /\ tasks[t].summary[1].images = 1 /\ tasks[t].summary[1].links = 0
        /\ tasks[u].pc = "done" /\ tasks[u].summary = <<>>

\* The attributes of an element other than src.
OtherAttrs(n) == [tag |-> n.tag, alt |-> n.alt]

\* C17: rewriting changes only img elements that have a src: an img without
\* src and every element whose tag name is not exactly "img" keep all their
\* attributes and add nothing to the accumulator, and a rewritten img keeps
\* every attribute but src.
C17_OnlyImgSrcChanges ==
    Rewrote =>
        /\ Len(fout.out.body) = Len(fin.resp.body)
        /\ \A i \in 1..Len(fin.resp.body) :
              IsTag(fin.resp.body[i]) =>
                  /\ OtherAttrs(fout.out.body[i]) = OtherAttrs(fin.resp.body[i])
                  /\ ~ImgSrcAt(fin.resp.body, i) =>
                        fout.out.body[i].src = fin.resp.body[i].src
        /\ Len(fout.out.assets) =
              Cardinality({i \in 1..Len(fin.resp.body) : ImgSrcAt(fin.resp.body, i)})

\* A page holding an element with a src that is not an img, next to an img
\* with a src and another attribute, has been rewritten.
C17_Witness ==
    /\ Rewrote
    /\ Len(fin.resp.body) = 2
    /\ fin.resp.body[1].tag \in {"script", "IMG"}
    /\ fin.resp.body[1].src.kind # "none"
    /\ ImgSrcAt(fin.resp.body, 2) /\ fin.resp.body[2].alt # ""
    /\ fout.out.body[2].src # fin.resp.body[2].src
    /\ fout.out.body[1].src = fin.resp.body[1].src

C19_DeriverAlwaysHasHost ==
    /\ (sched = "panicked" /\ tasks = <<>>) =>
          \E i \in 1..Len(args) : args[i] = Malformed
    /\ \A t \in DOMAIN tasks :
          tasks[t].url.host # NoHost /\ tasks[t].err # "panic_host"

====
